---- MODULE Spec2Model ----
(***************************************************************************)
(* A model of slipscheme: the JSON-schema to Go-struct generator.          *)
(*                                                                         *)
(* Strings are sequences of one-character strings, so that splitting,      *)
(* prefix/suffix tests, case conversion and byte-wise sorting are computed *)
(* as the Go code computes them.  A schema document is a raw JSON value;   *)
(* ParseSchema decodes it into a heap of Schema nodes (Go pointers are     *)
(* heap indices, 0 is the nil pointer), runs setRoot over it, and          *)
(* processSchema synthesises the Go declarations handed to writeGoCode.    *)
(***************************************************************************)
EXTENDS Naturals, Sequences, FiniteSets, TLC

VARIABLES files, cfg, idx, pc, err, heap, root, processed, emitted, calls,
          attempted, typeName

vars == <<files, cfg, idx, pc, err, heap, root, processed, emitted, calls,
          attempted, typeName>>

(***************************************************************************)
(* Characters, in byte order                                               *)
(***************************************************************************)
Uppers == <<"A", "B", "C", "D", "E", "F", "G", "H", "I", "J", "K", "L", "M",
            "N", "O", "P", "Q", "R", "S", "T", "U", "V", "W", "X", "Y", "Z">>

Lowers == <<"a", "b", "c", "d", "e", "f", "g", "h", "i", "j", "k", "l", "m",
            "n", "o", "p", "q", "r", "s", "t", "u", "v", "w", "x", "y", "z">>

Digits == <<"0", "1", "2", "3", "4", "5", "6", "7", "8", "9">>

\* The bytes used by the documents of the model, ascending.
Bytes == <<" ", "#", "$", "*", "-", ".", "/">> \o Digits \o <<":">> \o Uppers
         \o <<"[", "]", "^", "_">> \o Lowers

Range(q) == {q[i] : i \in 1..Len(q)}

IndexOf(q, c) == CHOOSE i \in 1..Len(q) : q[i] = c

ByteOf(c) == IndexOf(Bytes, c)

IsUpper(c) == c \in Range(Uppers)

IsLower(c) == c \in Range(Lowers)

\* unicode.IsLetter, on the bytes above
IsLetter(c) == IsUpper(c) \/ IsLower(c)

\* unicode.IsDigit, on the bytes above
IsDigit(c) == c \in Range(Digits)

ToUpperChar(c) == IF IsLower(c) THEN Uppers[IndexOf(Lowers, c)] ELSE c

ToLowerChar(c) == IF IsUpper(c) THEN Lowers[IndexOf(Uppers, c)] ELSE c

(***************************************************************************)
(* String helpers of the Go standard library                               *)
(***************************************************************************)
HasPrefix(s, p) == Len(p) <= Len(s) /\ SubSeq(s, 1, Len(p)) = p

HasSuffix(s, p) == Len(p) <= Len(s) /\ SubSeq(s, Len(s) - Len(p) + 1, Len(s)) = p

TrimPrefix(s, p) == IF HasPrefix(s, p) THEN SubSeq(s, Len(p) + 1, Len(s)) ELSE s

TrimSuffix(s, p) == IF HasSuffix(s, p) THEN SubSeq(s, 1, Len(s) - Len(p)) ELSE s

\* strings.Split(s, sep) for a one-byte separator: always at least one part.
RECURSIVE SplitFrom(_, _, _, _)
SplitFrom(s, sep, i, cur) ==
    IF i > Len(s) THEN <<cur>>
    ELSE IF s[i] = sep THEN <<cur>> \o SplitFrom(s, sep, i + 1, <<>>)
    ELSE SplitFrom(s, sep, i + 1, Append(cur, s[i]))

Split(s, sep) == SplitFrom(s, sep, 1, <<>>)

\* byte-wise s < t, the order of sort.Strings
RECURSIVE StrLess(_, _)
StrLess(s, t) ==
    IF t = <<>> THEN FALSE
    ELSE IF s = <<>> THEN TRUE
    ELSE IF s[1] = t[1] THEN StrLess(Tail(s), Tail(t))
    ELSE ByteOf(s[1]) < ByteOf(t[1])

\* sort.Strings over the keys of a map
RECURSIVE SortStrings(_)
SortStrings(S) ==
    IF S = {} THEN <<>>
    ELSE LET m == CHOOSE x \in S : \A y \in S \ {x} : StrLess(x, y)
         IN  <<m>> \o SortStrings(S \ {m})

Reverse(q) == [i \in 1..Len(q) |-> q[Len(q) + 1 - i]]

(***************************************************************************)
(* String constants                                                        *)
(***************************************************************************)
K_title == <<"t", "i", "t", "l", "e">>

K_id == <<"i", "d">>

K_type == <<"t", "y", "p", "e">>

K_description == <<"d", "e", "s", "c", "r", "i", "p", "t", "i", "o", "n">>

K_definitions == <<"d", "e", "f", "i", "n", "i", "t", "i", "o", "n", "s">>

K_properties == <<"p", "r", "o", "p", "e", "r", "t", "i", "e", "s">>

K_additionalProperties == <<"a", "d", "d", "i", "t", "i", "o", "n", "a", "l", "P", "r", "o", "p", "e", "r", "t", "i", "e", "s">>

K_patternProperties == <<"p", "a", "t", "t", "e", "r", "n", "P", "r", "o", "p", "e", "r", "t", "i", "e", "s">>

K_ref == <<"$", "r", "e", "f">>

K_items == <<"i", "t", "e", "m", "s">>

K_oneOf == <<"o", "n", "e", "O", "f">>

K_const == <<"c", "o", "n", "s", "t">>

K_enum == <<"e", "n", "u", "m">>

K_hash == <<"#">>

T_any == <<"a", "n", "y">>

T_bool == <<"b", "o", "o", "l">>

T_int == <<"i", "n", "t">>

T_float64 == <<"f", "l", "o", "a", "t", "6", "4">>

T_string == <<"s", "t", "r", "i", "n", "g">>

T_mapAny == <<"m", "a", "p", "[", "s", "t", "r", "i", "n", "g", "]", "a", "n", "y">>

T_mapOf == <<"m", "a", "p", "[", "s", "t", "r", "i", "n", "g", "]">>

T_sliceOf == <<"[", "]">>

T_star == <<"*">>

T_Map == <<"M", "a", "p">>

T_s == <<"s">>

T_es == <<"e", "s">>

(***************************************************************************)
(* SchemaType and the naming engine                                        *)
(***************************************************************************)
ANY == "any"

ARRAY == "array"

BOOLEAN_T == "boolean"

INTEGER == "integer"

NUMBER == "number"

NULL == "null"

OBJECT == "object"

STRING_T == "string"

\* The table of SchemaType.UnmarshalJSON: schema "type" string -> enum
SchemaTypes ==
    (<<"a", "r", "r", "a", "y">> :> ARRAY) @@
    (<<"b", "o", "o", "l", "e", "a", "n">> :> BOOLEAN_T) @@
    (<<"i", "n", "t", "e", "g", "e", "r">> :> INTEGER) @@
    (<<"n", "u", "m", "b", "e", "r">> :> NUMBER) @@
    (<<"n", "u", "l", "l">> :> NULL) @@
    (<<"o", "b", "j", "e", "c", "t">> :> OBJECT) @@
    (<<"s", "t", "r", "i", "n", "g">> :> STRING_T)

defaultReplacements ==
    (<<"I", "d">> :> <<"I", "D">>) @@
    (<<"H", "t", "t", "p">> :> <<"H", "T", "T", "P">>) @@
    (<<"H", "t", "t", "p", "s">> :> <<"H", "T", "T", "P", "S">>) @@
    (<<"A", "p", "i">> :> <<"A", "P", "I">>) @@
    (<<"U", "r", "l">> :> <<"U", "R", "L">>) @@
    (<<"J", "s", "o", "n">> :> <<"J", "S", "O", "N">>) @@
    (<<"X", "m", "l">> :> <<"X", "M", "L">>) @@
    (<<"H", "t", "m", "l">> :> <<"H", "T", "M", "L">>)

\* NewSchemaProcessor: the caller's table with the defaults written over it.
NewReplacements(user) == defaultReplacements @@ user

\* strings.Map keeping letters and digits
StripNonAlnum(s) == SelectSeq(s, LAMBDA c : IsLetter(c) \/ IsDigit(c))

\* A mutant of Name: the id is tried before the title.
NameIdFirst(s) ==
    LET parts == Split(s.ID, "/")
        fromId == StripNonAlnum(parts[Len(parts)])
        name == IF fromId = <<>> THEN s.Title ELSE fromId
    IN  IF name = <<>> THEN s.Description ELSE name

\* Schema.Name: Title, else the letters and digits of the last "/"-separated
\* part of ID, else Description.
Name(s) ==
    LET parts == Split(s.ID, "/")
        name == IF s.Title = <<>> THEN StripNonAlnum(parts[Len(parts)])
                ELSE s.Title
    IN  IF name = <<>> THEN s.Description ELSE name

\* strcase.ToCamel: drop separators, upper-case the letter after a separator
\* or digit (and the first), lower-case a capital that follows a capital.
RECURSIVE CamelFrom(_, _, _, _)
CamelFrom(s, i, capNext, prevIsCap) ==
    IF i > Len(s) THEN <<>>
    ELSE LET v == s[i]
             w == IF capNext THEN ToUpperChar(v)
                  ELSE IF prevIsCap /\ IsUpper(v) THEN ToLowerChar(v)
                  ELSE v
         IN  IF IsLetter(v)
                 THEN <<w>> \o CamelFrom(s, i + 1, FALSE, IsUpper(v))
             ELSE IF IsDigit(v)
                 THEN <<v>> \o CamelFrom(s, i + 1, TRUE, FALSE)
             ELSE CamelFrom(s, i + 1, v \in {"_", " ", "-", "."}, FALSE)

RECURSIVE TrimSpace(_)
TrimSpace(s) ==
    IF s # <<>> /\ s[1] = " " THEN TrimSpace(Tail(s))
    ELSE IF s # <<>> /\ s[Len(s)] = " " THEN TrimSpace(SubSeq(s, 1, Len(s) - 1))
    ELSE s

ToCamel(s) == CamelFrom(TrimSpace(s), 1, TRUE, FALSE)

\* The second loop of toCamel: every key, in iteration order, that is a
\* prefix of the word as it then stands is replaced.
RECURSIVE ReplacePrefixes(_, _, _)
ReplacePrefixes(word, repl, order) ==
    IF order = <<>> THEN word
    ELSE LET k == Head(order)
         IN  ReplacePrefixes(IF HasPrefix(word, k)
                                 THEN repl[k] \o TrimPrefix(word, k)
                                 ELSE word,
                             repl, Tail(order))

\* SchemaProcessor.toCamel.  order is the order in which this run's range
\* over s.replacements yields the keys.
toCamel(str, repl, order) ==
    LET word == ToCamel(str)
        suffixes == SelectSeq(order, LAMBDA k : HasSuffix(word, k))
    IN  IF suffixes # <<>>
            THEN TrimSuffix(word, suffixes[1]) \o repl[suffixes[1]]
        ELSE ReplacePrefixes(word, repl, order)

\* caser.String, the title caser: the first letter of every word in upper
\* case, the other letters of the word in lower case.
RECURSIVE TitleFrom(_, _, _)
TitleFrom(s, i, inWord) ==
    IF i > Len(s) THEN <<>>
    ELSE LET c == s[i]
             alnum == IsLetter(c) \/ IsDigit(c)
         IN  <<IF ~alnum THEN c
                ELSE IF inWord THEN ToLowerChar(c) ELSE ToUpperChar(c)>>
             \o TitleFrom(s, i + 1, alnum)

caserString(s) == TitleFrom(s, 1, FALSE)

(***************************************************************************)
(* Raw JSON documents and the Schema heap                                  *)
(***************************************************************************)
\* A raw JSON value, as json.Unmarshal into map[string]any keeps it.
JObj(f) == [t |-> "object", v |-> f]

JStr(s) == [t |-> "string", v |-> s]

JArr(q) == [t |-> "array", v |-> q]

JTrue == [t |-> "true", v |-> <<>>]

JFalse == [t |-> "false", v |-> <<>>]

\* map[string]*Schema: the nil map, or a map from keys to heap indices
NilMap == [nil |-> TRUE, m |-> <<>>]

MkMap(f) == [nil |-> FALSE, m |-> f]

\* &Schema{}: the zero value of the struct
ZeroSchema ==
    [Title |-> <<>>, ID |-> <<>>, Type |-> ANY, Description |-> <<>>,
     Definitions |-> NilMap, Properties |-> NilMap,
     AdditionalProperties |-> FALSE, PatternProperties |-> NilMap,
     Ref |-> <<>>, Items |-> 0, OneOf |-> <<>>, Const |-> <<>>,
     Enum |-> <<>>, Root |-> 0]

Has(f, k) == k \in DOMAIN f

IsStr(f, k) == Has(f, k) => f[k].t = "string"

StrField(f, k) == IF Has(f, k) THEN f[k].v ELSE <<>>

\* What json.Unmarshal accepts for the scalar fields of Schema.
ScalarsOK(f) ==
    /\ \A k \in {K_title, K_id, K_description, K_ref, K_const} : IsStr(f, k)
    /\ Has(f, K_type) => f[K_type].t = "string" /\ f[K_type].v \in DOMAIN SchemaTypes
    /\ Has(f, K_additionalProperties) => f[K_additionalProperties].t \in {"true", "false"}
    /\ Has(f, K_enum) => /\ f[K_enum].t = "array"
                         /\ \A i \in 1..Len(f[K_enum].v) : f[K_enum].v[i].t = "string"
    /\ \A k \in {K_definitions, K_properties, K_patternProperties, K_items} :
           Has(f, k) => f[k].t = "object"
    /\ Has(f, K_oneOf) => f[K_oneOf].t = "array"

\* LET x == e IN K(x), with e evaluated once however often K uses x
Let(x, K(_)) == K(x)

RECURSIVE Decode(_, _)
RECURSIVE DecodeMap(_, _, _)
RECURSIVE DecodeSeq(_, _)

\* json.Unmarshal of the members of a JSON object into map[string]*Schema
DecodeMap(h, f, keys) ==
    IF keys = <<>> THEN [h |-> h, m |-> <<>>, ok |-> TRUE]
    ELSE Let(Decode(h, f[Head(keys)]), LAMBDA d :
         Let(DecodeMap(d.h, f, Tail(keys)), LAMBDA r :
             [h |-> r.h, m |-> (Head(keys) :> d.id) @@ r.m, ok |-> d.ok /\ r.ok]))

\* json.Unmarshal of a JSON array into []*Schema
DecodeSeq(h, q) ==
    IF q = <<>> THEN [h |-> h, ids |-> <<>>, ok |-> TRUE]
    ELSE Let(Decode(h, Head(q)), LAMBDA d :
         Let(DecodeSeq(d.h, Tail(q)), LAMBDA r :
             [h |-> r.h, ids |-> <<d.id>> \o r.ids, ok |-> d.ok /\ r.ok]))

\* The map field k of a JSON object f, decoded into the field of that
\* name of the node, which is at d.id of heap d.h; d.ok carries the
\* errors so far.
MapField(d, f, k, field) ==
    IF Has(f, k) /\ f[k].t = "object"
        THEN Let(DecodeMap(d.h, f[k].v, SortStrings(DOMAIN f[k].v)), LAMBDA r :
                 [h |-> [r.h EXCEPT ![d.id][field] = MkMap(r.m)], id |-> d.id,
                  ok |-> d.ok /\ r.ok])
    ELSE d

ItemsField(d, f) ==
    IF Has(f, K_items)
        THEN Let(Decode(d.h, f[K_items]), LAMBDA r :
                 [h |-> [r.h EXCEPT ![d.id].Items = r.id], id |-> d.id,
                  ok |-> d.ok /\ r.ok])
    ELSE d

OneOfField(d, f) ==
    IF Has(f, K_oneOf)
        THEN Let(DecodeSeq(d.h, f[K_oneOf].v), LAMBDA r :
                 [h |-> [r.h EXCEPT ![d.id].OneOf = r.ids], id |-> d.id,
                  ok |-> d.ok /\ r.ok])
    ELSE d

\* The scalar fields of Schema, from the members of a JSON object
Scalars(f) ==
    [ZeroSchema EXCEPT
        !.Title = StrField(f, K_title),
        !.ID = StrField(f, K_id),
        !.Type = IF Has(f, K_type) THEN SchemaTypes[f[K_type].v] ELSE ANY,
        !.Description = StrField(f, K_description),
        !.AdditionalProperties =
            Has(f, K_additionalProperties) /\ f[K_additionalProperties].t = "true",
        !.Ref = StrField(f, K_ref),
        !.Const = StrField(f, K_const),
        !.Enum = IF Has(f, K_enum)
                 THEN [i \in 1..Len(f[K_enum].v) |-> f[K_enum].v[i].v]
                 ELSE <<>>]

\* json.Unmarshal of a JSON value into a fresh Schema: the new heap, the
\* index of the new node, and whether Unmarshal returned no error.  Members
\* that are not fields of Schema are skipped.
Decode(h, j) ==
    IF j.t # "object" \/ ~ScalarsOK(j.v)
        THEN [h |-> Append(h, ZeroSchema), id |-> Len(h) + 1, ok |-> FALSE]
    ELSE OneOfField(
           ItemsField(
             MapField(
               MapField(
                 MapField([h |-> Append(h, Scalars(j.v)), id |-> Len(h) + 1, ok |-> TRUE],
                          j.v, K_definitions, "Definitions"),
                 j.v, K_properties, "Properties"),
               j.v, K_patternProperties, "PatternProperties"),
             j.v),
           j.v)

(***************************************************************************)
(* The reference resolver                                                  *)
(***************************************************************************)
\* The order in which one run's range over a map yields its keys.  Go
\* leaves it unspecified; the model draws it from these.
MapOrders == {"ascending", "descending"}

RangeKeys(f, order) ==
    IF order = "ascending" THEN SortStrings(DOMAIN f)
    ELSE Reverse(SortStrings(DOMAIN f))

\* ctx of setRoot: a *Schema (p, 0 for nil) or a map[string]*Schema (m)
CtxSchema(p) == [k |-> "schema", p |-> p, m |-> NilMap]

CtxMap(m) == [k |-> "map", p |-> 0, m |-> m]

Panicked(h) == [h |-> h, panic |-> TRUE]

Returned(h) == [h |-> h, panic |-> FALSE]

\* r, then K on the heap r left, unless r panicked
Then(r, K(_)) == IF r.panic THEN r ELSE K(r.h)

\* The walk of the raw document along the whole $ref path; ok is FALSE
\* where the code panics.
RECURSIVE RawWalk(_, _, _)
RawWalk(cursor, path, i) ==
    IF i > Len(path) THEN [ok |-> TRUE, v |-> cursor]
    ELSE IF path[i] = K_hash THEN RawWalk(cursor, path, i + 1)
    ELSE IF cursor.t # "object" THEN [ok |-> FALSE, v |-> cursor]
    ELSE IF path[i] \notin DOMAIN cursor.v THEN [ok |-> FALSE, v |-> cursor]
    ELSE RawWalk(cursor.v[path[i]], path, i + 1)

RECURSIVE setRoot(_, _, _, _, _)
RECURSIVE SetRootProperties(_, _, _, _, _, _)
RECURSIVE SetRootEach(_, _, _, _, _)
RECURSIVE ResolvePath(_, _, _, _, _, _, _)

\* if v.Name() == "" { v.Title = k }
BackFill(h, v, k) == IF Name(h[v]) = <<>> THEN [h EXCEPT ![v].Title = k] ELSE h

\* for k, v := range schema.Properties: setRoot, then the title back-fill
SetRootProperties(h, raw, rt, m, keys, order) ==
    IF keys = <<>> THEN Returned(h)
    ELSE Then(setRoot(h, raw, rt, m[Head(keys)], order), LAMBDA h2 :
              SetRootProperties(BackFill(h2, m[Head(keys)], Head(keys)),
                                raw, rt, m, Tail(keys), order))

\* setRoot over a list of nodes (pattern properties, oneOf)
SetRootEach(h, raw, rt, nodes, order) ==
    IF nodes = <<>> THEN Returned(h)
    ELSE Then(setRoot(h, raw, rt, Head(nodes), order), LAMBDA h2 :
              SetRootEach(h2, raw, rt, Tail(nodes), order))

\* The typed step of the $ref walk for a keyword part
KeywordStep(s, part) ==
    IF part = K_definitions THEN CtxMap(s.Definitions)
    ELSE IF part = K_properties THEN CtxMap(s.Properties)
    ELSE IF part = K_patternProperties THEN CtxMap(s.PatternProperties)
    ELSE CtxSchema(s.Items)

\* refSchema.Description = part when refSchema has no name
GuessName(h, id, part) ==
    IF Name(h[id]) = <<>> THEN [h EXCEPT ![id].Description = part] ELSE h

WalkResult(h, panic, ctx) == [h |-> h, panic |-> panic, ctx |-> ctx]

\* The loop over the parts of schema.Ref, from part i with the given ctx.
\* Returns the heap, whether the code panicked, and the final ctx.
ResolvePath(h, raw, rt, path, i, ctx, order) ==
    IF i > Len(path) THEN WalkResult(h, FALSE, ctx)
    ELSE IF path[i] = K_hash
        THEN ResolvePath(h, raw, rt, path, i + 1, CtxSchema(rt), order)
    ELSE IF path[i] \in {K_definitions, K_properties, K_patternProperties, K_items}
        THEN IF ctx.k # "schema" \/ ctx.p = 0 THEN WalkResult(h, TRUE, ctx)
             ELSE ResolvePath(h, raw, rt, path, i + 1,
                              KeywordStep(h[ctx.p], path[i]), order)
    ELSE IF ctx.k = "map" /\ path[i] \in DOMAIN ctx.m.m
        THEN ResolvePath(h, raw, rt, path, i + 1, CtxSchema(ctx.m.m[path[i]]), order)
    ELSE
        \* no match in the structure: the raw document
        Let(RawWalk(raw, path, 1), LAMBDA w :
            IF ~w.ok THEN WalkResult(h, TRUE, ctx)
            ELSE Let(Decode(h, w.v), LAMBDA d :
                 IF ~d.ok THEN WalkResult(h, TRUE, ctx)
                 ELSE Let(setRoot(d.h, raw, rt, d.id, order), LAMBDA r :
                      IF r.panic THEN WalkResult(r.h, TRUE, ctx)
                      ELSE ResolvePath(GuessName(r.h, d.id, path[i]), raw, rt,
                                       path, i + 1, CtxSchema(d.id), order))))

\* A mutant of CopyReferent: the title of the referring node is kept.
CopyReferentKeepTitle(h, n, p) == [h EXCEPT ![n] = [h[p] EXCEPT !.Title = h[n].Title]]

\* *schema = *cast
CopyReferent(h, n, p) == [h EXCEPT ![n] = h[p]]

\* if schema.Ref != "" { ... }: the walk, then the overwrite
ResolveRef(h, raw, rt, n, order) ==
    IF h[n].Ref = <<>> THEN Returned(h)
    ELSE Let(ResolvePath(h, raw, rt, Split(h[n].Ref, "/"), 1, CtxSchema(n), order),
             LAMBDA w :
                 IF w.panic THEN Panicked(w.h)
                 ELSE IF w.ctx.k # "schema" THEN Returned(w.h)
                 ELSE IF w.ctx.p = 0 THEN Panicked(w.h)
                 ELSE Returned(CopyReferent(w.h, n, w.ctx.p)))

\* The values of a map in the order its range yields them
RangeValues(m, order) ==
    IF m.nil THEN <<>>
    ELSE Let(RangeKeys(m.m, order), LAMBDA ks : [j \in 1..Len(ks) |-> m.m[ks[j]]])

\* setRoot(root, schema): rt and n are heap indices, raw is root.raw.
setRoot(h, raw, rt, n, order) ==
    IF n = 0 THEN Panicked(h)
    ELSE
    Then(IF h[n].Properties.nil THEN Returned([h EXCEPT ![n].Root = rt])
         ELSE SetRootProperties([h EXCEPT ![n].Root = rt], raw, rt, h[n].Properties.m,
                                RangeKeys(h[n].Properties.m, order), order),
         LAMBDA h2 :
    Then(SetRootEach(h2, raw, rt, RangeValues(h2[n].PatternProperties, order), order),
         LAMBDA h3 :
    Then(IF h3[n].Items = 0 THEN Returned(h3)
         ELSE SetRootEach(h3, raw, rt, <<h3[n].Items>>, order),
         LAMBDA h4 :
    Then(SetRootEach(h4, raw, rt, h4[n].OneOf, order),
         LAMBDA h5 : ResolveRef(h5, raw, rt, n, order)))))

\* SchemaProcessor.ParseSchema: both Unmarshal calls, then setRoot.
\* status is "ok", "error" (Unmarshal failed) or "panic".
ParseSchema(raw, order) ==
    Let(Decode(<<>>, raw), LAMBDA d :
        IF ~d.ok THEN [status |-> "error", h |-> <<>>, root |-> 0]
        ELSE Let(setRoot(d.h, raw, d.id, d.id, order), LAMBDA r :
                 [status |-> IF r.panic THEN "panic" ELSE "ok",
                  h |-> r.h, root |-> d.id]))

(***************************************************************************)
(* The emitter                                                             *)
(***************************************************************************)
\* The state a SchemaProcessor carries through a run: the processed map,
\* what reached the writer (stdout or a file), and a log of every
\* writeGoCode call with what it did.
EmptyOutput == [processed |-> {}, emitted |-> <<>>, calls |-> <<>>]

\* The call logged; wrote says whether code reached the writer.
Logged(st, name, code, wrote, failed) ==
    [processed |-> st.processed,
     emitted |-> IF wrote THEN Append(st.emitted, [name |-> name, code |-> code])
                 ELSE st.emitted,
     calls |-> Append(st.calls, [name |-> name, code |-> code,
                                 wrote |-> wrote, failed |-> failed])]

Answer(st, failed) == [st |-> st, err |-> failed]

\* The writer beyond the processed check: code is handed to stdout, to
\* gofmt, or to the file of the type; sp says which and what the
\* environment answers (existing files, files that cannot be opened,
\* declarations gofmt rejects).
WriteOut(st, sp, name, code) ==
    IF sp.stdout
        THEN IF sp.format /\ name \in sp.gofmtFails
                 THEN Answer(Logged(st, name, code, FALSE, TRUE), TRUE)
             ELSE Answer(Logged(st, name, code, TRUE, FALSE), FALSE)
    ELSE IF ~sp.overwrite /\ name \in sp.existing
        THEN Answer(Logged(st, name, code, FALSE, FALSE), FALSE)
    ELSE IF name \in sp.unwritable
        THEN Answer(Logged(st, name, code, FALSE, TRUE), TRUE)
    ELSE Answer(Logged(st, name, code, TRUE, sp.format /\ name \in sp.gofmtFails),
                sp.format /\ name \in sp.gofmtFails)

\* s.processed[typeName] = true
Mark(st, name) == [st EXCEPT !.processed = @ \cup {name}]

\* A mutant of writeGoCode: the processed map is not consulted.
writeGoCodeAlways(st, sp, name, code) == WriteOut(Mark(st, name), sp, name, code)

\* SchemaProcessor.writeGoCode
writeGoCode(st, sp, name, code) ==
    IF name \in st.processed
        THEN Answer(Logged(st, name, code, FALSE, FALSE), FALSE)
    ELSE WriteOut(Mark(st, name), sp, name, code)

(***************************************************************************)
(* The type synthesiser                                                    *)
(***************************************************************************)
\* json.MarshalIndent(schema): the node with its children in place of the
\* pointers, without Root; omitempty drops an empty map like a nil one.
RECURSIVE Marshal(_, _)
RECURSIVE MarshalMap(_, _)
MarshalMap(h, m) == [k \in DOMAIN m.m |-> Marshal(h, h[m.m[k]])]

Marshal(h, s) ==
    [Title |-> s.Title, ID |-> s.ID, Type |-> s.Type,
     Description |-> s.Description,
     Definitions |-> MarshalMap(h, s.Definitions),
     Properties |-> MarshalMap(h, s.Properties),
     AdditionalProperties |-> s.AdditionalProperties,
     PatternProperties |-> MarshalMap(h, s.PatternProperties),
     Ref |-> s.Ref,
     Items |-> [i \in 1..(IF s.Items = 0 THEN 0 ELSE 1) |-> Marshal(h, h[s.Items])],
     OneOf |-> [i \in 1..Len(s.OneOf) |-> Marshal(h, h[s.OneOf[i]])],
     Const |-> s.Const, Enum |-> s.Enum]

\* SchemaProcessor.structComment
structComment(h, sp, s, name) ==
    IF ~sp.comment THEN <<>> ELSE <<[typeName |-> name, schema |-> Marshal(h, s)]>>

\* One line of a struct body: the Go field name, its type, the json key,
\* and whether the tag is `json:",inline"`.
Field(name, type, key, inline) ==
    [name |-> name, type |-> type, key |-> key, inline |-> inline]

\* The text of a declaration: "type <name> struct {...}", "type <name>
\* map[string]<elem>" or "type <name> []<elem>", after its comment.
Decl(kind, comment, name, fields, elem) ==
    [kind |-> kind, comment |-> comment, name |-> name, fields |-> fields,
     elem |-> elem]

Camel(sp, str) == toCamel(str, sp.replacements, sp.replOrder)

Done(t, st) == [t |-> t, status |-> "ok", st |-> st]

Failed(status, st) == [t |-> <<>>, status |-> status, st |-> st]

\* writeGoCode(typeName, typeData), then return t unless it failed
Emit(st, sp, name, code, t) ==
    Let(writeGoCode(st, sp, name, code), LAMBDA w :
        IF w.err THEN Failed("error", w.st) ELSE Done(t, w.st))

\* A mutant of PropertyKeys: the keys are not sorted.
PropertyKeysUnsorted(m) == Reverse(SortStrings(DOMAIN m))

\* keys := the keys of the map; sort.Strings(keys)
PropertyKeys(m) == SortStrings(DOMAIN m)

RECURSIVE processSchema(_, _, _, _)
RECURSIVE mergeSchemas(_, _, _, _, _)
RECURSIVE ProcessFields(_, _, _, _, _, _, _)
RECURSIVE ProcessPatterns(_, _, _, _, _, _, _)

\* processSchema on the node a pointer leads to
ProcessPointer(h, sp, p, st) ==
    IF p = 0 THEN Failed("panic", st) ELSE processSchema(h, sp, h[p], st)

FieldsResult(status, st, fields) == [status |-> status, st |-> st, fields |-> fields]

\* The loop over sorted keys that builds the fields of a struct: the
\* sorted keys of a properties map m of pointers (inline FALSE), or
\* oneOfKeys with m the uncommon schemas themselves (inline TRUE).
ProcessFields(h, sp, m, keys, st, fields, inline) ==
    IF keys = <<>> THEN FieldsResult("ok", st, fields)
    ELSE Let(IF inline THEN processSchema(h, sp, m[Head(keys)], st)
             ELSE ProcessPointer(h, sp, m[Head(keys)], st),
             LAMBDA r :
                 IF r.status # "ok" THEN FieldsResult(r.status, r.st, fields)
                 ELSE ProcessFields(h, sp, m, Tail(keys), r.st,
                          Append(fields,
                                 Field(Camel(sp, Head(keys)), r.t,
                                       IF inline THEN <<>> ELSE Head(keys), inline)),
                          inline))

\* The loop over the sorted keys of a patternProperties map; t is typeName
\* as the previous iteration left it.
ProcessPatterns(h, sp, s, m, keys, st, t) ==
    IF keys = <<>> THEN Done(t, st)
    ELSE Let(ProcessPointer(h, sp, m[Head(keys)], st), LAMBDA r :
             IF r.status # "ok" THEN Failed(r.status, r.st)
             ELSE IF caserString(r.t) = r.t
                 THEN Let(TrimPrefix(r.t \o T_Map, T_star), LAMBDA name :
                      Let(writeGoCode(r.st, sp, name,
                                      Decl("map", structComment(h, sp, s, name), name,
                                           <<>>, r.t)),
                          LAMBDA w :
                              IF w.err THEN Failed("error", w.st)
                              ELSE ProcessPatterns(h, sp, s, m, Tail(keys), w.st, name)))
             ELSE ProcessPatterns(h, sp, s, m, Tail(keys), r.st, T_mapOf \o r.t))

\* case schema.Properties != nil of processSchema
ProcessStruct(h, sp, s, st, name) ==
    Let(ProcessFields(h, sp, s.Properties.m, PropertyKeys(s.Properties.m), st,
                      <<>>, FALSE),
        LAMBDA f :
            IF f.status # "ok" THEN Failed(f.status, f.st)
            ELSE Emit(f.st, sp, name,
                      Decl("struct", structComment(h, sp, s, name), name, f.fields, <<>>),
                      T_star \o name))

\* The type name of an array: its own, else the plural of a named item type
ArrayName(own, sub) ==
    IF own = <<>> /\ caserString(sub) = sub
        THEN IF HasSuffix(sub, T_s) THEN sub \o T_es ELSE sub \o T_s
    ELSE own

\* case ARRAY of processSchema
ProcessArray(h, sp, s, st) ==
    Let(ProcessPointer(h, sp, s.Items, st), LAMBDA r :
        IF r.status # "ok" THEN Failed(r.status, r.st)
        ELSE Let(TrimPrefix(ArrayName(Camel(sp, Name(s)), r.t), T_star), LAMBDA name :
                 IF ArrayName(Camel(sp, Name(s)), r.t) = <<>>
                     THEN Done(T_sliceOf \o r.t, r.st)
                 ELSE Emit(r.st, sp, name,
                           Decl("slice", structComment(h, sp, s, name), name, <<>>, r.t),
                           name)))

\* SchemaProcessor.processSchema on the node s (a Schema value; its
\* children are heap indices).  status is "ok", "error" or "panic".
processSchema(h, sp, s, st) ==
    CASE s.Type = OBJECT ->
           IF ~s.Properties.nil
               THEN ProcessStruct(h, sp, s, st, Camel(sp, Name(s)))
           ELSE IF ~s.PatternProperties.nil
               THEN ProcessPatterns(h, sp, s, s.PatternProperties.m,
                                    PropertyKeys(s.PatternProperties.m), st,
                                    Camel(sp, Name(s)))
           ELSE IF s.AdditionalProperties THEN Done(T_mapAny, st)
           ELSE Done(Camel(sp, Name(s)), st)
      [] s.Type = ARRAY -> ProcessArray(h, sp, s, st)
      [] s.Type = ANY ->
           IF Len(s.OneOf) > 0 THEN mergeSchemas(h, sp, s, s.OneOf, st)
           ELSE IF s.Const # <<>> THEN Done(T_string, st)
           ELSE IF Len(s.Enum) > 0 THEN Done(T_string, st)
           ELSE Done(T_any, st)
      [] s.Type = BOOLEAN_T -> Done(T_bool, st)
      [] s.Type = INTEGER -> Done(T_int, st)
      [] s.Type = NUMBER -> Done(T_float64, st)
      [] s.Type = NULL -> Done(T_any, st)
      [] s.Type = STRING_T -> Done(T_string, st)

\* The properties of an alternative (a nil map ranges over nothing).
PropsOf(h, id) == h[id].Properties.m

\* allProperties[p]: the number of alternatives that have property p
AllProperties(h, schemas, p) ==
    Cardinality({i \in 1..Len(schemas) : p \in DOMAIN PropsOf(h, schemas[i])})

\* The key of uncommonSchemas under which alternative i is kept.
UncommonKey(h, schemas, i) == Name(h[schemas[i]])

\* uncommonSchemas[schema.Name()] = &Schema{...}
FreshUncommon(h, parent, id) ==
    [ZeroSchema EXCEPT !.Description = Name(h[id]),
                       !.Root = parent.Root,
                       !.Properties = MkMap(<<>>),
                       !.Type = h[id].Type]

\* uncommonSchemas after its first loop: a fresh object per alternative
\* name, the later alternative of a name replacing the earlier.
RECURSIVE UncommonInit(_, _, _, _, _)
UncommonInit(h, parent, schemas, i, acc) ==
    IF i > Len(schemas) THEN acc
    ELSE UncommonInit(h, parent, schemas, i + 1,
                      (UncommonKey(h, schemas, i) :> FreshUncommon(h, parent, schemas[i]))
                      @@ acc)

\* f with the members of g at the keys K written over it
Assign(f, g, K) == [p \in DOMAIN f \cup K |-> IF p \in K THEN g[p] ELSE f[p]]

Common(h, schemas, i) ==
    {p \in DOMAIN PropsOf(h, schemas[i]) : AllProperties(h, schemas, p) > 1}

\* The split loop: a property of more than one alternative goes to
\* mergedParent (the last alternative's value stays), any other to the
\* uncommon schema of its alternative's name.
RECURSIVE SplitProperties(_, _, _, _, _)
SplitProperties(h, schemas, i, merged, uncommon) ==
    IF i > Len(schemas) THEN [merged |-> merged, uncommon |-> uncommon]
    ELSE SplitProperties(h, schemas, i + 1,
             Assign(merged, PropsOf(h, schemas[i]), Common(h, schemas, i)),
             [uncommon EXCEPT ![UncommonKey(h, schemas, i)].Properties =
                 MkMap(Assign(@.m, PropsOf(h, schemas[i]),
                              DOMAIN PropsOf(h, schemas[i]) \ Common(h, schemas, i)))])

\* mergedParent := &Schema{...}, with the properties the split gave it
MergedParent(parent, merged) ==
    [ZeroSchema EXCEPT !.Description = Name(parent),
                       !.Root = parent.Root,
                       !.Properties = MkMap(merged),
                       !.Type = OBJECT]

\* The names of the uncommon schemas that have properties, sorted
OneOfKeys(uncommon) ==
    SortStrings({k \in DOMAIN uncommon : DOMAIN uncommon[k].Properties.m # {}})

\* mergeSchemas from the split on: the common fields, the inlined fields
\* of the uncommon schemas, the declaration.
MergeEmit(h, sp, split, mergedParent, name, st) ==
    Let(ProcessFields(h, sp, split.merged, PropertyKeys(split.merged), st, <<>>, FALSE),
        LAMBDA f :
            IF f.status # "ok" THEN Failed(f.status, f.st)
            ELSE Let(ProcessFields(h, sp, split.uncommon, OneOfKeys(split.uncommon),
                                   f.st, f.fields, TRUE),
                     LAMBDA u :
                         IF u.status # "ok" THEN Failed(u.status, u.st)
                         ELSE Emit(u.st, sp, name,
                                   Decl("struct", structComment(h, sp, mergedParent, name),
                                        name, u.fields, <<>>),
                                   name)))

\* SchemaProcessor.mergeSchemas(parent, schemas...)
mergeSchemas(h, sp, parent, schemas, st) ==
    IF Len(schemas) = 0 THEN Failed("error", st)
    ELSE IF \E i \in 1..Len(schemas) : schemas[i] = 0 THEN Failed("panic", st)
    ELSE IF Len(schemas) = 1 THEN processSchema(h, sp, h[schemas[1]], st)
    ELSE Let(SplitProperties(h, schemas, 1, <<>>,
                             UncommonInit(h, parent, schemas, 1, <<>>)),
             LAMBDA split :
                 Let(MergedParent(parent, split.merged), LAMBDA mergedParent :
                     MergeEmit(h, sp, split, mergedParent,
                               Camel(sp, Name(mergedParent)), st)))

(***************************************************************************)
(* The documents of the model                                              *)
(***************************************************************************)
S_Pet == <<"P", "e", "t">>

S_Top == <<"T", "o", "p">>

S_Foo == <<"F", "o", "o">>

S_Bar == <<"B", "a", "r">>

S_Shape == <<"S", "h", "a", "p", "e">>

S_Circle == <<"C", "i", "r", "c", "l", "e">>

S_Square == <<"S", "q", "u", "a", "r", "e">>

S_HttpsServer == <<"H", "t", "t", "p", "s", "S", "e", "r", "v", "e", "r">>

S_name == <<"n", "a", "m", "e">>

S_id == <<"i", "d">>

S_owner == <<"o", "w", "n", "e", "r">>

S_pet == <<"p", "e", "t">>

S_x == <<"x">>

S_a == <<"a">>

S_b == <<"b">>

S_c == <<"c">>

S_thing == <<"t", "h", "i", "n", "g">>

S_special == <<"$", "s", "p", "e", "c", "i", "a", "l">>

S_pattern == <<"^", "S", "_">>

S_string == <<"s", "t", "r", "i", "n", "g">>

S_integer == <<"i", "n", "t", "e", "g", "e", "r">>

S_object == <<"o", "b", "j", "e", "c", "t">>

S_array == <<"a", "r", "r", "a", "y">>

S_strng == <<"s", "t", "r", "n", "g">>

S_aPet == <<"a", " ", "p", "e", "t">>

S_personId == <<"h", "t", "t", "p", "s", ":", "/", "/", "e", "x", "a", "m", "p", "l", "e", ".", "c", "o", "m", "/", "s", "c", "h", "e", "m", "a", "s", "/", "p", "e", "r", "s", "o", "n", ".", "j", "s", "o", "n">>

S_slashId == <<"s", "c", "h", "e", "m", "a", "s", "/", "p", "e", "t", "/">>

S_plainId == <<"p", "e", "t">>

R_Foo == <<"#", "/", "d", "e", "f", "i", "n", "i", "t", "i", "o", "n", "s", "/", "F", "o", "o">>

R_Bar == <<"#", "/", "d", "e", "f", "i", "n", "i", "t", "i", "o", "n", "s", "/", "B", "a", "r">>

R_Missing == <<"#", "/", "d", "e", "f", "i", "n", "i", "t", "i", "o", "n", "s", "/", "M", "i", "s", "s", "i", "n", "g">>

R_definitions == <<"#", "/", "d", "e", "f", "i", "n", "i", "t", "i", "o", "n", "s">>

R_special == <<"#", "/", "$", "s", "p", "e", "c", "i", "a", "l", "/", "t", "h", "i", "n", "g">>

R_items == <<"#", "/", "i", "t", "e", "m", "s">>

R_nowhere == <<"#", "/", "n", "o", "w", "h", "e", "r", "e">>

R_b == <<"#", "/", "p", "r", "o", "p", "e", "r", "t", "i", "e", "s", "/", "b">>

U_Uri == <<"U", "r", "i">>

U_URI == <<"U", "R", "I">>

U_Ident == <<"I", "d", "e", "n", "t">>

U_Id == <<"I", "d">>

\* {"type": t}
Prim(t) == JObj(K_type :> JStr(t))

\* A member only when its string is not empty
Opt(k, str) == IF str = <<>> THEN <<>> ELSE (k :> JStr(str))

\* {"type": "object", "properties": {"name": {"type": "string"}}}, titled or not
Person(title) ==
    JObj(Opt(K_title, title) @@ (K_type :> JStr(S_object)) @@
         (K_properties :> JObj(S_name :> Prim(S_string))))

\* {"$ref": ref}
RefTo(ref) == JObj(K_ref :> JStr(ref))

\* What definitions.Foo can be
FooShapes ==
    {Prim(S_string), Person(S_Foo), Person(<<>>), RefTo(R_Bar),
     JObj((K_title :> JStr(S_Foo)) @@ (K_type :> JStr(S_object)) @@
          (K_properties :> JObj(S_b :> RefTo(R_Bar)))),
     JObj((K_title :> JStr(S_Foo)) @@ (K_type :> JStr(S_object)) @@
          (K_properties :> JObj(S_b :> RefTo(R_nowhere)))),
     JObj((K_type :> JStr(S_array)) @@ (K_items :> Prim(S_string)))}

\* Where the referring node sits in the document
Sites == {"property", "items", "oneOf", "pattern"}

\* A document with definitions Foo and Bar, an out-of-spec member
\* "$special", and one node {"$ref": ref} at the given site.
RefDoc(site, ref, foo) ==
    LET base == (K_definitions :> JObj((S_Foo :> foo) @@ (S_Bar :> Prim(S_integer)))) @@
                (S_special :> JObj(S_thing :> Person(<<>>)))
    IN  JObj(base @@
             CASE site = "property" ->
                    (K_title :> JStr(S_Top)) @@ (K_type :> JStr(S_object)) @@
                    (K_properties :> JObj(S_x :> RefTo(ref)))
               [] site = "items" ->
                    (K_type :> JStr(S_array)) @@ (K_items :> RefTo(ref))
               [] site = "oneOf" ->
                    (K_oneOf :> JArr(<<RefTo(ref)>>))
               [] site = "pattern" ->
                    (K_type :> JStr(S_object)) @@
                    (K_patternProperties :> JObj(S_pattern :> RefTo(ref))))

RefDocs ==
    {RefDoc(site, R_Foo, foo) : site \in Sites, foo \in FooShapes} \cup
    {RefDoc(site, ref, Prim(S_string)) :
        site \in Sites, ref \in {R_Bar, R_Missing, R_definitions, R_special, R_items}}

\* {"properties": {"a": {"$ref": "#/properties/b"}, "b": <untitled object>}}
SiblingDoc ==
    JObj((K_title :> JStr(S_Top)) @@ (K_type :> JStr(S_object)) @@
         (K_properties :> JObj((S_a :> RefTo(R_b)) @@ (S_b :> Person(<<>>)))))

\* The property keys an object document chooses from, and their schemas
MaxProps == 3

KeyPool == <<S_name, S_pet, S_id, S_owner>>

PropSchema(k) ==
    IF k = S_name THEN Prim(S_string)
    ELSE IF k = S_id THEN Prim(S_integer)
    ELSE Person(<<>>)

\* An object schema with the given naming hints and property keys
ObjDoc(title, id, description, keys) ==
    JObj(Opt(K_title, title) @@ Opt(K_id, id) @@ Opt(K_description, description) @@
         (K_type :> JStr(S_object)) @@
         (K_properties :> JObj([k \in keys |-> PropSchema(k)])))

ObjDocs ==
    {ObjDoc(title, <<>>, <<>>, keys) :
        title \in {S_Pet, S_HttpsServer},
        keys \in SUBSET {KeyPool[i] : i \in 1..MaxProps}} \cup
    {ObjDoc(title, id, description, {S_name}) :
        title \in {<<>>, S_Pet},
        id \in {<<>>, S_personId, S_slashId, S_plainId},
        description \in {<<>>, S_aPet}}

\* {"type": "object"} and naming hints, with additionalProperties true,
\* false or absent, and without properties and patternProperties
BareObjDoc(title, id, description, additional) ==
    JObj(Opt(K_title, title) @@ Opt(K_id, id) @@ Opt(K_description, description) @@
         (K_type :> JStr(S_object)) @@
         (CASE additional = "true" -> (K_additionalProperties :> JTrue)
            [] additional = "false" -> (K_additionalProperties :> JFalse)
            [] additional = "absent" -> <<>>))

BareObjDocs ==
    {BareObjDoc(title, id, description, additional) :
        title \in {<<>>, S_Pet},
        id \in {<<>>, S_plainId},
        description \in {<<>>, S_aPet},
        additional \in {"true", "false", "absent"}}

\* {"title": "Top", "type": "object", "properties": {"x": {"type": "object"}}}
NestedBareDoc ==
    JObj((K_title :> JStr(S_Top)) @@ (K_type :> JStr(S_object)) @@
         (K_properties :> JObj(S_x :> Prim(S_object))))

\* One alternative of a oneOf: {"properties": {"a", other}}, titled or
\* not, with "type": "object" or without
Alternative(title, typed, other) ==
    JObj(Opt(K_title, title) @@
         (IF typed THEN (K_type :> JStr(S_object)) ELSE <<>>) @@
         (K_properties :> JObj((S_a :> Prim(S_string)) @@ (other :> Prim(S_integer)))))

\* {"title": "Shape", "oneOf": [{a, b}, {a, c}]}
OneOfDoc(t1, t2, typed) ==
    JObj((K_title :> JStr(S_Shape)) @@
         (K_oneOf :> JArr(<<Alternative(t1, typed, S_b), Alternative(t2, typed, S_c)>>)))

OneOfDocs ==
    {OneOfDoc(t1, t2, typed) :
        t1 \in {<<>>, S_Circle}, t2 \in {<<>>, S_Circle, S_Square}, typed \in BOOLEAN}

\* {"type": "strng"}: UnmarshalJSON of SchemaType fails
UnknownTypeDoc == JObj((K_title :> JStr(S_Pet)) @@ (K_type :> JStr(S_strng)))

\* {"type": "array"} without items
NoItemsDoc == Prim(S_array)

\* A file of the command line: a path that cannot be opened, a directory
\* (opens, cannot be read), a file that is not JSON, a schema document, or
\* "-" with a schema document on stdin.
SchemaFile(doc) == [kind |-> "schema", doc |-> doc]

StdinFile(doc) == [kind |-> "stdin", doc |-> doc]

BadFile(kind) == [kind |-> kind, doc |-> JObj(<<>>)]

\* The files of multi-file batches
BatchFiles ==
    {BadFile("missing"), BadFile("directory"), BadFile("invalid"),
     SchemaFile(ObjDoc(S_Pet, <<>>, <<>>, {S_name})),
     StdinFile(ObjDoc(S_Pet, <<>>, <<>>, {S_id})),
     SchemaFile(RefDoc("property", R_Missing, Prim(S_string)))}

MaxFiles == 2

SingleDocs ==
    RefDocs \cup ObjDocs \cup OneOfDocs \cup BareObjDocs \cup
    {SiblingDoc, UnknownTypeDoc, NoItemsDoc, NestedBareDoc}

Batches ==
    {<<SchemaFile(d)>> : d \in SingleDocs} \cup
    UNION {[1..n -> BatchFiles] : n \in 1..MaxFiles}

\* The options of the command line and what the environment answers to
\* the writer.
Processor(stdout, overwrite, format, comment, existing, unwritable, gofmtFails, user) ==
    [stdout |-> stdout, overwrite |-> overwrite, format |-> format,
     comment |-> comment, existing |-> existing, unwritable |-> unwritable,
     gofmtFails |-> gofmtFails, replacements |-> NewReplacements(user)]

Processors ==
    {Processor(TRUE, FALSE, FALSE, FALSE, {}, {}, {}, <<>>),
     Processor(TRUE, FALSE, TRUE, TRUE, {}, {}, {<<>>}, (U_Uri :> U_URI) @@ (U_Id :> U_Ident)),
     Processor(FALSE, FALSE, FALSE, FALSE, {S_Pet}, {}, {}, <<>>),
     Processor(FALSE, TRUE, TRUE, FALSE, {S_Pet}, {S_Foo}, {<<>>}, <<>>)}

(***************************************************************************)
(* Process and runMain                                                     *)
(***************************************************************************)
Init ==
    /\ files \in Batches
    /\ cfg \in Processors
    /\ idx = 1
    /\ pc = "open"
    /\ err = FALSE
    /\ heap = <<>>
    /\ root = 0
    /\ processed = {}
    /\ emitted = <<>>
    /\ calls = <<>>
    /\ attempted = {}
    /\ typeName = <<>>

\* return err: Process stops at the file it is at.
ReturnErr ==
    /\ pc' = "returned"
    /\ err' = TRUE

\* The head of the loop over files, and os.OpenFile ("-" is stdin).
OpenFile ==
    /\ pc = "open"
    /\ idx <= Len(files)
    /\ attempted' = attempted \cup {idx}
    /\ IF files[idx].kind = "missing"
           THEN ReturnErr
       ELSE pc' = "read" /\ err' = err
    /\ UNCHANGED <<files, cfg, idx, heap, root, processed, emitted, calls, typeName>>

\* io.ReadAll
ReadAll ==
    /\ pc = "read"
    /\ IF files[idx].kind = "directory"
           THEN ReturnErr
       ELSE pc' = "parse" /\ err' = err
    /\ UNCHANGED <<files, cfg, idx, heap, root, processed, emitted, calls,
                   attempted, typeName>>

\* schema, err := s.ParseSchema(b)
Parse ==
    /\ pc = "parse"
    /\ \E order \in MapOrders :
          \E r \in {IF files[idx].kind = "invalid"
                       THEN [status |-> "error", h |-> <<>>, root |-> 0]
                   ELSE ParseSchema(files[idx].doc, order)} :
              /\ heap' = r.h
              /\ root' = r.root
              /\ IF r.status = "error" THEN ReturnErr
                 ELSE IF r.status = "panic" THEN pc' = "panicked" /\ err' = err
                 ELSE pc' = "process" /\ err' = err
    /\ UNCHANGED <<files, cfg, idx, processed, emitted, calls, attempted, typeName>>

Output == [processed |-> processed, emitted |-> emitted, calls |-> calls]

WithOrder(sp, order) ==
    [x \in DOMAIN sp \cup {"replOrder"} |->
        IF x = "replOrder" THEN RangeKeys(sp.replacements, order) ELSE sp[x]]

\* _, err = s.processSchema(schema), and the step to the next file
Synthesize ==
    /\ pc = "process"
    /\ \E order \in MapOrders :
          \E r \in {processSchema(heap, WithOrder(cfg, order), heap[root], Output)} :
              /\ processed' = r.st.processed
              /\ emitted' = r.st.emitted
              /\ calls' = r.st.calls
              /\ typeName' = r.t
              /\ IF r.status = "error" THEN ReturnErr /\ idx' = idx
                 ELSE IF r.status = "panic"
                     THEN pc' = "panicked" /\ err' = err /\ idx' = idx
                 ELSE pc' = "open" /\ err' = err /\ idx' = idx + 1
    /\ UNCHANGED <<files, cfg, heap, root, attempted>>

\* return nil after the last file
ReturnNil ==
    /\ pc = "open"
    /\ idx > Len(files)
    /\ pc' = "returned"
    /\ UNCHANGED <<files, cfg, idx, err, heap, root, processed, emitted, calls,
                   attempted, typeName>>

\* runMain: exit code 1 after an error, 0 otherwise
Exit ==
    /\ pc = "returned"
    /\ pc' = IF err THEN "exit1" ELSE "exit0"
    /\ UNCHANGED <<files, cfg, idx, err, heap, root, processed, emitted, calls,
                   attempted, typeName>>

Next == OpenFile \/ ReadAll \/ Parse \/ Synthesize \/ ReturnNil \/ Exit

Spec == Init /\ [][Next]_vars

(***************************************************************************)
(* C1: the emitter                                                         *)
(***************************************************************************)
\* The calls of the log before call j that have its name
Earlier(j) == {i \in 1..(j - 1) : calls[i].name = calls[j].name}

\* C1: over the writeGoCode calls of one run, a call whose name an earlier
\* call had writes nothing and returns no error, whatever its body; so the
\* writer gets at most one body per name, and it is the body of the first
\* call with that name.
C1_AtMostOncePerName ==
    /\ \A j \in 1..Len(calls) :
          Earlier(j) # {} => ~calls[j].wrote /\ ~calls[j].failed
    /\ \A k \in 1..Len(emitted) :
          /\ \A l \in 1..Len(emitted) : emitted[l].name = emitted[k].name => l = k
          /\ \E j \in 1..Len(calls) :
                /\ calls[j].name = emitted[k].name
                /\ Earlier(j) = {}
                /\ calls[j].code = emitted[k].code

\* A second call with the name of a call that wrote, and another body
C1_Witness ==
    \E j \in 1..Len(calls) :
        \E i \in Earlier(j) : calls[i].wrote /\ calls[i].code # calls[j].code

(***************************************************************************)
(* C2: the batch                                                           *)
(***************************************************************************)
\* C2: when the run is over (runMain has its exit code, or the process
\* died of a panic), every file of the list has been attempted, whatever
\* happened to the files before it.
C2_EveryFileAttempted ==
    pc \in {"exit0", "exit1", "panicked"} => attempted = 1..Len(files)

(***************************************************************************)
(* C3: references that lead nowhere                                        *)
(***************************************************************************)
\* The $ref strings of a raw document, wherever they are
RECURSIVE RawRefs(_)
RawRefs(j) ==
    IF j.t = "object"
        THEN (IF Has(j.v, K_ref) /\ IsStr(j.v, K_ref) THEN {j.v[K_ref].v} ELSE {}) \cup
             UNION {RawRefs(j.v[k]) : k \in DOMAIN j.v}
    ELSE IF j.t = "array" THEN UNION {RawRefs(j.v[i]) : i \in 1..Len(j.v)}
    ELSE {}

\* The $ref strings of a document whose path leads to nothing in it
Unlocatable(raw) == {r \in RawRefs(raw) : ~RawWalk(raw, Split(r, "/"), 1).ok}

\* The file Process is at holds a schema document
AtDocument == idx <= Len(files) /\ files[idx].kind \in {"schema", "stdin"}

\* C3: a document with a $ref that cannot be located never gets from
\* ParseSchema to processSchema, so that none of its types is emitted.
C3_UnlocatableRefIsFatal ==
    pc = "process" /\ AtDocument => Unlocatable(files[idx].doc) = {}

(***************************************************************************)
(* C4: a reference to a definition                                         *)
(***************************************************************************)
\* j is {"$ref": ref}
RefersTo(j, ref) == j.t = "object" /\ Has(j.v, K_ref) /\ j.v[K_ref] = JStr(ref)

\* The members of the member k of a raw object (none when it has no k)
Members(raw, k) == IF Has(raw.v, k) THEN raw.v[k].v ELSE <<>>

\* The children of the root that the document wrote as {"$ref": ref}: the
\* node, and the property key it is the value of (empty elsewhere)
Referrers(raw, h, rt, ref) ==
    {[n |-> h[rt].Properties.m[k], key |-> k] :
        k \in {x \in DOMAIN Members(raw, K_properties) :
                  RefersTo(Members(raw, K_properties)[x], ref)}} \cup
    {[n |-> h[rt].PatternProperties.m[k], key |-> <<>>] :
        k \in {x \in DOMAIN Members(raw, K_patternProperties) :
                  RefersTo(Members(raw, K_patternProperties)[x], ref)}} \cup
    {[n |-> h[rt].Items, key |-> <<>>] :
        k \in {x \in {K_items} : Has(raw.v, x) /\ RefersTo(raw.v[x], ref)}} \cup
    {[n |-> h[rt].OneOf[i], key |-> <<>>] :
        i \in {x \in DOMAIN Members(raw, K_oneOf) :
                  RefersTo(Members(raw, K_oneOf)[x], ref)}}

\* What processSchema makes of a node on its own: the type expression,
\* how it ended, and what reached the writer
Synth(h, sp, s) ==
    Let(processSchema(h, sp, s, EmptyOutput), LAMBDA r :
        [t |-> r.t, status |-> r.status, emitted |-> r.st.emitted])

\* ParseSchema has returned a document that has definitions.Foo
ParsedWithFoo ==
    /\ pc = "process"
    /\ AtDocument
    /\ ~heap[root].Definitions.nil
    /\ S_Foo \in DOMAIN heap[root].Definitions.m

DefinitionFoo == heap[heap[root].Definitions.m[S_Foo]]

\* The node at definitions.Foo as a property value sees it: titled with
\* the key when it has no name of its own
Titled(foo, key) == IF Name(foo) = <<>> THEN [foo EXCEPT !.Title = key] ELSE foo

StructSynthesized ==
    /\ pc = "open"
    /\ idx > 1
    /\ heap # <<>>
    /\ heap[root].Type = OBJECT
    /\ ~heap[root].Properties.nil

RootProperties == heap[root].Properties.m

\* The keys of the fields of a declaration, in the order of the fields
FieldKeys(code) == [i \in 1..Len(code.fields) |-> code.fields[i].key]

\* q is strictly ascending in the byte order of strings
Ascending(q) == \A i, j \in 1..Len(q) : i < j => StrLess(q[i], q[j])

\* The keys of q are those of P, each once, in lexicographic order
OnePerKeySorted(q, P) ==
    /\ Len(q) = Cardinality(DOMAIN P)
    /\ Range(q) = DOMAIN P
    /\ Ascending(q)

\* C5 as amended: for an object with a non-nil properties map P, the struct
\* declaration that processSchema hands to writeGoCode has exactly one
\* field per key of P, in lexicographic order of the keys, each of the type
\* processSchema gives the key's value schema, and the type expression
\* returned is a pointer to the declared name; the declaration reaches the
\* writer only if no earlier writeGoCode call of the run had its name.
C5_StructHandedToWriter ==
    StructSynthesized =>
        /\ calls # <<>>
        /\ calls[Len(calls)].code.kind = "struct"
        /\ calls[Len(calls)].code.name = calls[Len(calls)].name
        /\ OnePerKeySorted(FieldKeys(calls[Len(calls)].code), RootProperties)
        /\ typeName = T_star \o calls[Len(calls)].name
        /\ calls[Len(calls)].wrote => Earlier(Len(calls)) = {}
        /\ \E order \in MapOrders :
              /\ calls[Len(calls)].name = Camel(WithOrder(cfg, order), Name(heap[root]))
              /\ \A i \in 1..Len(calls[Len(calls)].code.fields) :
                    calls[Len(calls)].code.fields[i] =
                        Field(Camel(WithOrder(cfg, order), PropertyKeys(RootProperties)[i]),
                              Synth(heap, WithOrder(cfg, order),
                                    heap[RootProperties[PropertyKeys(RootProperties)[i]]]).t,
                              PropertyKeys(RootProperties)[i], FALSE)

\* A struct of two fields or more that reached the writer
C5_Witness ==
    /\ StructSynthesized
    /\ Cardinality(DOMAIN RootProperties) >= 2
    /\ calls # <<>>
    /\ calls[Len(calls)].wrote

\* C5 as stated: the struct emitted under the name the returned pointer
\* names has exactly one field per key of P, in lexicographic order.
C5_EmittedStructHasFieldPerKey ==
    StructSynthesized =>
        /\ HasPrefix(typeName, T_star)
        /\ \A k \in 1..Len(emitted) :
              emitted[k].name = TrimPrefix(typeName, T_star) =>
                  /\ emitted[k].code.kind = "struct"
                  /\ OnePerKeySorted(FieldKeys(emitted[k].code), RootProperties)

(***************************************************************************)
(* C6: the merge of oneOf alternatives                                     *)
(***************************************************************************)
\* processSchema has returned without error for the document of heap,
\* whose root is a oneOf of two alternatives or more
UnionSynthesized ==
    /\ pc = "open"
    /\ idx > 1
    /\ heap # <<>>
    /\ heap[root].Type = ANY
    /\ Len(heap[root].OneOf) >= 2

\* The property keys of alternative i
AltKeys(i) == DOMAIN heap[heap[root].OneOf[i]].Properties.m

\* The keys that occur in more than one alternative
CommonKeys ==
    {k \in UNION {AltKeys(i) : i \in 1..Len(heap[root].OneOf)} :
        \E i, j \in 1..Len(heap[root].OneOf) : i # j /\ k \in AltKeys(i) \cap AltKeys(j)}

\* The struct declarations the run handed to writeGoCode under a name
StructsNamed(name) ==
    {calls[j].code : j \in {x \in 1..Len(calls) :
        calls[x].name = name /\ calls[x].code.kind = "struct"}}

\* C6: the merged declaration has the keys that occur in more than one
\* alternative as its own fields, and for every alternative with keys of
\* its own an inlined field whose type is a struct of exactly those keys.
C6_ExtensionGroupPerAlternative ==
    UnionSynthesized =>
        /\ calls # <<>>
        /\ {f.key : f \in {g \in Range(calls[Len(calls)].code.fields) : ~g.inline}}
               = CommonKeys
        /\ \A i \in 1..Len(heap[root].OneOf) :
              AltKeys(i) \ CommonKeys # {} =>
                  \E f \in Range(calls[Len(calls)].code.fields) :
                      /\ f.inline
                      /\ \E d \in StructsNamed(TrimPrefix(f.type, T_star)) :
                            Range(FieldKeys(d)) = AltKeys(i) \ CommonKeys

(***************************************************************************)
(* C7: Schema.Name                                                         *)
(***************************************************************************)
S_person == <<"p", "e", "r", "s", "o", "n">>

S_personjson == <<"p", "e", "r", "s", "o", "n", "j", "s", "o", "n">>

S_Personjson == <<"P", "e", "r", "s", "o", "n", "j", "s", "o", "n">>

\* What follows the last "/" of id (all of id when it has none)
AfterLastSlash(id) ==
    SubSeq(id,
           1 + (CHOOSE i \in 0..Len(id) :
                   /\ i = 0 \/ id[i] = "/"
                   /\ \A j \in (i + 1)..Len(id) : id[j] # "/"),
           Len(id))

\* The letters and digits of s, in their order
LettersDigits(s) ==
    SelectSeq(s, LAMBDA c : c \in Range(Uppers) \cup Range(Lowers) \cup Range(Digits))

\* The last of the "/"-separated parts of id that is not empty
LastNonEmptyPart(id) ==
    IF \A i \in 1..Len(id) : id[i] = "/" THEN <<>>
    ELSE AfterLastSlash(SubSeq(id, 1, CHOOSE i \in 1..Len(id) :
                                   /\ id[i] # "/"
                                   /\ \A j \in (i + 1)..Len(id) : id[j] = "/"))

\* C7 as amended: Name() is the title when it is not empty; otherwise the
\* letters and digits of what follows the last "/" of id, also when that
\* is nothing; otherwise the description, which may be empty.  With no
\* title and id "https://example.com/schemas/person.json" it is
\* "personjson".
C7_NameTakesLastPart ==
    \A n \in 1..Len(heap) :
        /\ Name(heap[n]) =
              IF heap[n].Title # <<>> THEN heap[n].Title
              ELSE IF LettersDigits(AfterLastSlash(heap[n].ID)) # <<>>
                  THEN LettersDigits(AfterLastSlash(heap[n].ID))
              ELSE heap[n].Description
        /\ heap[n].Title = <<>> /\ heap[n].ID = S_personId =>
              Name(heap[n]) = S_personjson

\* The type of a document without title, named by the person.json id
C7_Witness ==
    /\ pc = "open"
    /\ idx > 1
    /\ heap # <<>>
    /\ heap[root].Title = <<>>
    /\ heap[root].ID = S_personId
    /\ typeName = T_star \o S_Personjson

\* C7 as stated: Name() is the title when it is not empty; otherwise the
\* last non-empty path segment of id without its non-letters and
\* non-digits; otherwise the description; with no title and id
\* "https://example.com/schemas/person.json" it is "person".
C7_NameTakesLastNonEmptySegment ==
    \A n \in 1..Len(heap) :
        /\ Name(heap[n]) =
              IF heap[n].Title # <<>> THEN heap[n].Title
              ELSE IF LettersDigits(LastNonEmptyPart(heap[n].ID)) # <<>>
                  THEN LettersDigits(LastNonEmptyPart(heap[n].ID))
              ELSE heap[n].Description
        /\ heap[n].Title = <<>> /\ heap[n].ID = S_personId =>
              Name(heap[n]) = S_person

(***************************************************************************)
(* C8: the order of map iteration                                          *)
(***************************************************************************)
\* One run over a document: ParseSchema under one order of map iteration,
\* processSchema under one order of the replacement table
RunDoc(doc, sp, parseOrder, replOrder) ==
    Let(ParseSchema(doc, parseOrder), LAMBDA p :
        IF p.status # "ok" THEN [t |-> <<>>, status |-> p.status, emitted |-> <<>>]
        ELSE Synth(p.h, WithOrder(sp, replOrder), p.h[p.root]))

\* C8: two runs over the document Process is at that differ only in the
\* orders of map iteration end alike, return the same type expression
\* and emit the same names with the same bodies.
C8_SameOutputUnderAnyOrder ==
    pc = "parse" /\ AtDocument =>
        \A o1, o2, o3, o4 \in MapOrders :
            RunDoc(files[idx].doc, cfg, o1, o2) = RunDoc(files[idx].doc, cfg, o3, o4)

(***************************************************************************)
(* C9 and C10: the graph ParseSchema leaves                                *)
(***************************************************************************)
\* The nodes a node points to through properties, patternProperties,
\* items and oneOf
Children(h, n) ==
    ({h[n].Properties.m[k] : k \in DOMAIN h[n].Properties.m} \cup
     {h[n].PatternProperties.m[k] : k \in DOMAIN h[n].PatternProperties.m} \cup
     {h[n].Items} \cup Range(h[n].OneOf)) \ {0}

RECURSIVE ReachFrom(_, _, _)
ReachFrom(h, seen, frontier) ==
    IF frontier = {} THEN seen
    ELSE ReachFrom(h, seen \cup frontier,
                   UNION {Children(h, n) : n \in frontier} \ (seen \cup frontier))

\* The nodes reachable from the root
Reach(h, rt) == ReachFrom(h, {}, {rt})

\* C9: when ParseSchema has returned, every node reachable from the root
\* has its Root set to the root.
C9_RootSetOnReachable ==
    pc = "process" => \A n \in Reach(heap, root) : heap[n].Root = root

\* C10: when ParseSchema has returned, no node reachable from the root
\* carries a $ref.
C10_NoRefOnReachable ==
    pc = "process" => \A n \in Reach(heap, root) : heap[n].Ref = <<>>

(***************************************************************************)
(* C11: an object without shape                                            *)
(***************************************************************************)
\* The node is of type object, without properties, without
\* patternProperties and with additionalProperties false
Shapeless(s) ==
    /\ s.Type = OBJECT
    /\ s.Properties.nil
    /\ s.PatternProperties.nil
    /\ ~s.AdditionalProperties

\* C11: for an object without properties, without patternProperties and
\* with additionalProperties false, processSchema returns map[string]any,
\* as it does with additionalProperties true, whatever the title, id and
\* description of the node.
C11_ShapelessObjectIsOpenMap ==
    pc = "open" /\ idx > 1 /\ heap # <<>> =>
        /\ Shapeless(heap[root]) => typeName = T_mapAny
        /\ \A n \in Reach(heap, root) :
              Shapeless(heap[n]) =>
                  \A order \in MapOrders :
                      Synth(heap, WithOrder(cfg, order), heap[n]).t = T_mapAny
====
